---- MODULE Spec2Model ----
(***************************************************************************)
(* Model of Backend/Gemini_News/verify_news.py: the four-stage pipeline    *)
(* verify_news_with_ground_truth (validate, configure, extract claims,     *)
(* search evidence, rank and explain) with its collaborators (the          *)
(* text-generation model and the search client) as nondeterministic        *)
(* black boxes that return a value or raise.                               *)
(*                                                                         *)
(* Python str values that the code takes apart (response texts, urls,      *)
(* Real/Fake given as a string) are sequences of one-character strings;    *)
(* messages and titles the code only copies are TLA+ strings.              *)
(***************************************************************************)
EXTENDS Integers, Sequences, FiniteSets, TLC

VARIABLES
    news_input,      \* the dict handed to verify_news_with_ground_truth
    pc,              \* position of the run inside verify_news_with_ground_truth
    is_real,         \* local is_real (line 291)
    claims,          \* local claims (line 301)
    search_results,  \* local search_results (line 312)
    rank_out,        \* what the ranking generate_content call produced
    result,          \* the dict the function returned
    calls,           \* history: external calls issued and how each ended
    search_request,  \* the keyword arguments of tavily_client.search (lines 133-139)
    harness,         \* run_verify.py: its position and the label it displayed
    pure,            \* a text function applied on its own: name, argument, result
    genai_key,       \* the process-wide key set by genai.configure (line 51)
    runs             \* concurrent invocations of verify_news_with_ground_truth

\* the variables outside one invocation of the pipeline
aux_vars == <<harness, pure, genai_key, runs>>

vars == <<news_input, pc, is_real, claims, search_results, rank_out, result, calls,
          search_request, aux_vars>>

----------------------------------------------------------------------------
(* Bounds of the model *)

\* longest list of lines in a claim-extraction response
MaxLines == 2
\* longest list of raw hits in a search response
MaxHits == 6
\* longest list of lines in a response given to the claim parser on its own
MaxRespLines == 6

----------------------------------------------------------------------------
(* Python string primitives, on sequences of characters *)

Whitespace == {" ", "\n", "\t"}
Digits == {"0", "1", "2", "3", "4", "5", "6", "7", "8", "9"}

\* s[:n]
Take(s, n) == SubSeq(s, 1, IF n < Len(s) THEN n ELSE Len(s))

\* s[n:]
Drop(s, n) == SubSeq(s, n + 1, Len(s))

RECURSIVE LStripSet(_, _)
\* str.lstrip(chars)
LStripSet(s, cs) ==
    IF s # <<>> /\ Head(s) \in cs THEN LStripSet(Tail(s), cs) ELSE s

RECURSIVE RStripSet(_, _)
\* str.rstrip(chars)
RStripSet(s, cs) ==
    IF s # <<>> /\ s[Len(s)] \in cs THEN RStripSet(SubSeq(s, 1, Len(s) - 1), cs) ELSE s

\* str.strip()
Strip(s) == RStripSet(LStripSet(s, Whitespace), Whitespace)

\* str.startswith(p)
StartsWith(s, p) == Len(s) >= Len(p) /\ SubSeq(s, 1, Len(p)) = p

RECURSIVE Find(_, _, _)
\* index (from 1) of the first occurrence of p in s at or after i, 0 if none
Find(s, p, i) ==
    IF i + Len(p) - 1 > Len(s) THEN 0
    ELSE IF SubSeq(s, i, i + Len(p) - 1) = p THEN i
    ELSE Find(s, p, i + 1)

RECURSIVE Split(_, _)
\* str.split(sep): the list of the pieces between occurrences of sep
Split(s, sep) ==
    LET k == Find(s, sep, 1)
    IN  IF k = 0 THEN <<s>>
        ELSE <<SubSeq(s, 1, k - 1)>> \o Split(Drop(s, k + Len(sep) - 1), sep)

\* str.split(sep, 1): at most one cut
SplitOnce(s, sep) ==
    LET k == Find(s, sep, 1)
    IN  IF k = 0 THEN <<s>>
        ELSE <<SubSeq(s, 1, k - 1), Drop(s, k + Len(sep) - 1)>>

RECURSIVE Replace(_, _)
\* str.replace(old, ''): every occurrence of old removed
Replace(s, old) ==
    LET k == Find(s, old, 1)
    IN  IF k = 0 THEN s
        ELSE SubSeq(s, 1, k - 1) \o Replace(Drop(s, k + Len(old) - 1), old)

RECURSIVE Join(_, _)
\* sep.join(parts)
Join(parts, sep) ==
    IF parts = <<>> THEN <<>>
    ELSE IF Len(parts) = 1 THEN parts[1]
    ELSE parts[1] \o sep \o Join(Tail(parts), sep)

LowerLetters == <<"a", "b", "c", "d", "e", "f", "g", "h", "i", "j", "k", "l", "m",
                  "n", "o", "p", "q", "r", "s", "t", "u", "v", "w", "x", "y", "z">>
UpperLetters == <<"A", "B", "C", "D", "E", "F", "G", "H", "I", "J", "K", "L", "M",
                  "N", "O", "P", "Q", "R", "S", "T", "U", "V", "W", "X", "Y", "Z">>

IsLower(c) == \E i \in DOMAIN LowerLetters : LowerLetters[i] = c
IsUpper(c) == \E i \in DOMAIN UpperLetters : UpperLetters[i] = c
IsAlpha(c) == IsLower(c) \/ IsUpper(c)
ToUpper(c) ==
    IF IsLower(c) THEN UpperLetters[CHOOSE i \in DOMAIN LowerLetters : LowerLetters[i] = c]
    ELSE c
ToLower(c) ==
    IF IsUpper(c) THEN LowerLetters[CHOOSE i \in DOMAIN UpperLetters : UpperLetters[i] = c]
    ELSE c

\* str.title(): a letter is upper-cased after a non-letter, lower-cased after a letter
TitleCase(s) ==
    [i \in DOMAIN s |->
        IF i = 1 \/ ~IsAlpha(s[i - 1]) THEN ToUpper(s[i]) ELSE ToLower(s[i])]

\* all sequences over S of length at most n
SeqsUpTo(S, n) == UNION {[1..k -> S] : k \in 0..n}

----------------------------------------------------------------------------
(* Python values and outcomes of calls *)

PyNone == [t |-> "none", i |-> 0, s |-> <<>>]
PyInt(n) == [t |-> "int", i |-> n, s |-> <<>>]
PyStr(cs) == [t |-> "str", i |-> 0, s |-> cs]

\* a call that returned v / a call that raised an exception with message m
Returned(v) == [raised |-> FALSE, value |-> v]
Raised(m) == [raised |-> TRUE, msg |-> m]

\* dict.get(key, default)
Get(d, key, default) == IF key \in DOMAIN d THEN d[key] ELSE default

----------------------------------------------------------------------------
(* Inputs and collaborator behaviours the model draws from *)

\* values of news_input['Text']
Texts == {"", "City launches tree-planting drive"}

\* values of news_input['Real/Fake']: None, ints, and strings
RealFakeValues ==
    {PyNone, PyInt(0), PyInt(1), PyInt(2), PyStr(<<"1">>), PyStr(<<"a", "b", "c">>)}

\* the input dicts: each of the two required keys present or absent (the optional
\* keys Imagetext and Link text only reach the prompts, which the collaborators
\* answer arbitrarily)
NewsInputs ==
    {[k \in {"Text", "Real/Fake"} |-> IF k = "Text" THEN t ELSE l] :
        t \in Texts, l \in RealFakeValues}
    \cup {[k \in {"Text"} |-> t] : t \in Texts}
    \cup {[k \in {"Real/Fake"} |-> l] : l \in RealFakeValues}
    \cup {<<>>}

\* messages of the exceptions a collaborator raises
ServiceErrors == {"503 service unavailable"}

----------------------------------------------------------------------------
(* Result shapes *)

\* "REAL" if is_real else "FAKE" (lines 76, 177, 238, 255, 306, 317)
LabelOf(real) == IF real THEN "REAL" ELSE "FAKE"

\* mutant: the handler's dict carries a source entry
ErrorResult_with_sources(msg) ==
    [label |-> "ERROR",
     overall_explanation |-> "Error during verification: " \o msg,
     top_5_sources |-> <<[rank |-> 1, url |-> "", title |-> "Unknown"]>>,
     error |-> msg]

\* the dict of the top-level handler (lines 333-338)
ErrorResult(msg) ==
    [label |-> "ERROR",
     overall_explanation |-> "Error during verification: " \o msg,
     top_5_sources |-> <<>>,
     error |-> msg]

\* the dict returned when no claim was extracted (lines 305-309)
EmptyClaimsResult(real) ==
    [label |-> LabelOf(real),
     overall_explanation |-> "Could not extract claims for verification",
     top_5_sources |-> <<>>]

\* the dict returned when the search found nothing (lines 316-320)
NoEvidenceResult(real) ==
    [label |-> LabelOf(real),
     overall_explanation |->
        "No supporting sources found to " \o (IF real THEN "verify" ELSE "debunk")
            \o " this news",
     top_5_sources |-> <<>>]

----------------------------------------------------------------------------
(* Input validation, lines 280-291 *)

RECURSIVE DigitsValue(_)
\* the number a sequence of decimal digits denotes
DigitsValue(ds) ==
    IF ds = <<>> THEN 0
    ELSE 10 * DigitsValue(SubSeq(ds, 1, Len(ds) - 1))
         + (CHOOSE n \in 0..9 : <<"0", "1", "2", "3", "4", "5", "6", "7", "8", "9">>[n + 1] = ds[Len(ds)])

\* mutant: a value that is no number counts as 0
PyToInt_lenient(v) ==
    IF v.t = "int" THEN Returned(v.i)
    ELSE LET ds == Strip(v.s)
         IN  IF v.t = "str" /\ ds # <<>> /\ \A k \in DOMAIN ds : ds[k] \in Digits
             THEN Returned(DigitsValue(ds))
             ELSE Returned(0)

\* int(v) for an int or a str of digits with surrounding whitespace; ValueError otherwise
PyToInt(v) ==
    IF v.t = "int" THEN Returned(v.i)
    ELSE LET ds == Strip(v.s)
         IN  IF v.t = "str" /\ ds # <<>> /\ \A k \in DOMAIN ds : ds[k] \in Digits
             THEN Returned(DigitsValue(ds))
             ELSE Raised("invalid literal for int() with base 10")

\* mutant: the label is read without the checks for a missing text or label
ValidateInput_unchecked(inp) ==
    LET n == PyToInt(Get(inp, "Real/Fake", PyInt(1)))
    IN  IF n.raised THEN n ELSE Returned(n.value # 0)

\* lines 280-291: the value of is_real, or the exception raised on the way
ValidateInput(inp) ==
    LET news_text == Get(inp, "Text", "")
        real_fake_label == Get(inp, "Real/Fake", PyNone)
    IN  IF news_text = "" THEN Raised("News text is required")
        ELSE IF real_fake_label = PyNone
             THEN Raised("Real/Fake label is required (1 for real, 0 for fake)")
        ELSE LET n == PyToInt(real_fake_label)
             IN  IF n.raised THEN n ELSE Returned(n.value # 0)

----------------------------------------------------------------------------
(* configure_apis, lines 47-55 *)

\* mutant: the failure of the constructors is swallowed
configure_apis_swallow(out) == Returned("handles")

\* out: how constructing the two handles ended
configure_apis(out) ==
    IF out.raised THEN Raised("API configuration failed: " \o out.msg)
    ELSE Returned("handles")

----------------------------------------------------------------------------
(* extract_claims_for_verification, lines 91-107 *)

\* lines of a claim-extraction response: "1. a", "- b.c", "x", "2."
SampleLines ==
    {<<"1", ".", " ", "a">>, <<"-", " ", "b", ".", "c">>, <<"x">>, <<"2", ".">>}

\* the response texts of the claim-extraction call
ExtractTexts == {Join(ls, <<"\n">>) : ls \in SeqsUpTo(SampleLines, MaxLines)}

\* lines 96-101: the claims (none or one) a line of the response gives
ClaimsOfLine(rawline) ==
    LET line == Strip(rawline)
    IN  IF line # <<>> /\ (line[1] \in Digits \/ StartsWith(line, <<"-">>))
        THEN LET parts == SplitOnce(line, <<".">>)
                 claim == Strip(LStripSet(Strip(parts[Len(parts)]), {"-"}))
             IN  IF claim # <<>> THEN <<claim>> ELSE <<>>
        ELSE <<>>

RECURSIVE ClaimsOfLines(_)
\* lines 94-101: the loop over the lines
ClaimsOfLines(lines) ==
    IF lines = <<>> THEN <<>>
    ELSE ClaimsOfLine(Head(lines)) \o ClaimsOfLines(Tail(lines))

\* mutant: the list is returned without the cut of line 103
extract_claims_untruncated(out) ==
    IF out.raised THEN <<>>
    ELSE ClaimsOfLines(Split(Strip(out.value), <<"\n">>))

\* out: how gemini_model.generate_content(prompt) ended
extract_claims_for_verification(out) ==
    IF out.raised THEN <<>>
    ELSE Take(ClaimsOfLines(Split(Strip(out.value), <<"\n">>)), 5)

----------------------------------------------------------------------------
(* search_supporting_evidence, lines 122-156 *)

\* lines 19-44: the trusted domains
INDIAN_NEWS_DOMAINS ==
    <<"timesofindia.indiatimes.com",
      "thehindu.com",
      "hindustantimes.com",
      "indianexpress.com",
      "ndtv.com",
      "thequint.com",
      "thewire.in",
      "scroll.in",
      "news18.com",
      "zeenews.india.com",
      "dnaindia.com",
      "deccanherald.com",
      "firstpost.com",
      "livemint.com",
      "businesstoday.in",
      "economictimes.indiatimes.com",
      "moneycontrol.com",
      "outlookindia.com",
      "newslaundry.com",
      "india.com",
      "mumbaimirror.indiatimes.com",
      "tribuneindia.com",
      "newindianexpress.com",
      "freepressjournal.in">>

\* " confirmed true verified" (line 126)
ConfirmSuffix ==
    <<" ", "c", "o", "n", "f", "i", "r", "m", "e", "d", " ", "t", "r", "u", "e", " ", "v", "e", "r", "i", "f", "i", "e", "d">>

\* " false fake debunked hoax misinformation" (line 129)
DebunkSuffix ==
    <<" ", "f", "a", "l", "s", "e", " ", "f", "a", "k", "e", " ", "d", "e", "b", "u", "n", "k", "e", "d", " ", "h", "o", "a", "x", " ", "m", "i", "s", "i", "n", "f", "o", "r", "m", "a", "t", "i", "o", "n">>

\* mutant: the two branches of line 124 exchanged
SearchQuery_swapped(cl, real) ==
    Join(cl, <<" ", "O", "R", " ">>) \o (IF real THEN DebunkSuffix ELSE ConfirmSuffix)

\* lines 124-129: search_query
SearchQuery(cl, real) ==
    Join(cl, <<" ", "O", "R", " ">>) \o (IF real THEN ConfirmSuffix ELSE DebunkSuffix)

\* lines 133-139: the keyword arguments of tavily_client.search
SearchRequest(cl, real) ==
    [query |-> SearchQuery(cl, real),
     include_domains |-> INDIAN_NEWS_DOMAINS,
     max_results |-> 20,
     search_depth |-> "advanced",
     days |-> 365]

\* "https://www.ndtv.com/a"
NdtvUrl ==
    <<"h", "t", "t", "p", "s", ":", "/", "/", "w", "w", "w", ".",
      "n", "d", "t", "v", ".", "c", "o", "m", "/", "a">>

\* raw hits of the search service: a complete one, and one without a url
SampleRawHits ==
    {[url |-> NdtvUrl, title |-> "Tree drive launched", content |-> "The city...",
      score |-> 1, published_date |-> "2025-03-01"],
     [title |-> "Wire copy", content |-> "Agency text"]}

\* the dicts tavily_client.search returns: with a results list, or without the key
SearchResponses ==
    {[results |-> hs] : hs \in SeqsUpTo(SampleRawHits, MaxHits)} \cup {<<>>}

\* lines 144-150: a raw hit with defaults for the missing keys
NormalizedHit(r) ==
    [url |-> Get(r, "url", <<>>),
     title |-> Get(r, "title", ""),
     content |-> Get(r, "content", ""),
     score |-> Get(r, "score", 0),
     published_date |-> Get(r, "published_date", "")]

\* out: how tavily_client.search(...) ended
search_supporting_evidence(out) ==
    IF out.raised THEN <<>>
    ELSE IF "results" \in DOMAIN out.value
         THEN [k \in DOMAIN out.value.results |-> NormalizedHit(out.value.results[k])]
         ELSE <<>>

----------------------------------------------------------------------------
(* select_top_5_with_explanations, lines 176-258 *)

\* A response text of the ranking call is a sequence of characters in which a
\* whole serialized JSON document is one element, named by a string of JsonDocs.

\* an entry of top_5_sources as the prompt asks for it (lines 209-216)
RankedSource(rank, relevance) ==
    [rank |-> rank, url |-> NdtvUrl, title |-> "Tree drive launched",
     source_name |-> "NDTV", relevance |-> relevance,
     explanation |-> "Reports the same programme."]

\* the object of the prompt's format (lines 205-218)
RankingObject(label, sources) ==
    [label |-> label,
     overall_explanation |-> "Trusted outlets report the same programme.",
     top_5_sources |-> sources]

\* the serialized JSON documents a response may hold
JsonDocs ==
    {"{REAL, ranks 1 2}", "{FAKE, rank 1}", "{UNCERTAIN, no sources}",
     "{REAL, ranks 1..6}", "{FAKE, ranks 2 1 1}", "{}"}

\* the value json.loads gives for each document
JsonValue(doc) ==
    CASE doc = "{REAL, ranks 1 2}" ->
            RankingObject("REAL", <<RankedSource(1, "high"), RankedSource(2, "medium")>>)
      [] doc = "{FAKE, rank 1}" ->
            RankingObject("FAKE", <<RankedSource(1, "low")>>)
      [] doc = "{UNCERTAIN, no sources}" ->
            RankingObject("UNCERTAIN", <<>>)
      [] doc = "{REAL, ranks 1..6}" ->
            RankingObject("REAL", [k \in 1..6 |-> RankedSource(k, "high")])
      [] doc = "{FAKE, ranks 2 1 1}" ->
            RankingObject("FAKE", <<RankedSource(2, "high"), RankedSource(1, "high"),
                                    RankedSource(1, "low")>>)
      [] doc = "{}" -> <<>>

\* the backquote character (the lexer of TLA+ admits none inside a string)
Backquote == "<backquote>"

\* the code fence: three backquotes
Fence == <<Backquote, Backquote, Backquote>>

\* a response that is prose, not JSON: "Sorry"
NonJsonText == <<"S", "o", "r", "r", "y">>

\* the response texts of the ranking call: a bare document, a document in a
\* json-tagged code fence, and prose that is no JSON
RankTexts ==
    {<<d>> : d \in JsonDocs}
    \cup {Fence \o <<"j", "s", "o", "n", "\n", d, "\n">> \o Fence :
            d \in {"{REAL, ranks 1 2}", "{FAKE, rank 1}"}}
    \cup {NonJsonText}

\* json.loads(text): the document's value, or JSONDecodeError
JsonLoads(text) ==
    LET body == Strip(text)
    IN  IF Len(body) = 1 /\ body[1] \in JsonDocs THEN Returned(JsonValue(body[1]))
        ELSE Raised("Expecting value: line 1 column 1 (char 0)")

\* lines 222-229: the response text without its code fence
CleanResponse(text) ==
    LET response_text == Strip(text)
        unfenced ==
            IF StartsWith(response_text, Fence)
            THEN LET inner == Split(response_text, Fence)[2]
                 IN  IF StartsWith(inner, <<"j", "s", "o", "n">>) THEN Drop(inner, 4)
                     ELSE inner
            ELSE response_text
    IN  Strip(unfenced)

\* line 245: r['url'].split('/')[2].replace('www.', '').split('.')[0].title()
SourceName(url) == TitleCase(Split(Replace(Split(url, <<"/">>)[3], <<"w", "w", "w", ".">>), <<".">>)[1])

\* line 245 raises IndexError when the url has fewer than three '/'-separated parts
SourceNameRaises(url) == Len(Split(url, <<"/">>)) < 3

\* lines 241-248: the fallback entry for hit number k
FallbackSource(k, r) ==
    [rank |-> k, url |-> r.url, title |-> r.title,
     source_name |-> SourceName(r.url), relevance |-> "medium",
     explanation |-> "This source provides information related to the claims in the article."]

\* lines 234-251: the handler of json.JSONDecodeError; an exception raised inside
\* it leaves the function
ParseFallback(real, results) ==
    LET top == Take(results, 5)
    IN  IF \E k \in DOMAIN top : SourceNameRaises(top[k].url)
        THEN Raised("list index out of range")
        ELSE Returned(
            [label |-> LabelOf(real),
             overall_explanation |->
                "Analysis indicates this news appears to be "
                    \o (IF real THEN "real" ELSE "fake") \o " based on available sources.",
             top_5_sources |-> [k \in DOMAIN top |-> FallbackSource(k, top[k])]])

\* lines 252-258: the handler of every other exception
AnalysisError(real, msg) ==
    [label |-> LabelOf(real),
     overall_explanation |-> "Error during analysis: " \o msg,
     top_5_sources |-> <<>>]

\* mutant: without the handler of lines 252-258 a failed call leaves the function
select_top_5_unhandled(real, results, out) ==
    IF out.raised THEN Raised(out.msg)
    ELSE LET parsed == JsonLoads(CleanResponse(out.value))
         IN  IF parsed.raised THEN ParseFallback(real, results)
             ELSE Returned(parsed.value)

\* out: how gemini_model.generate_content(prompt) ended; the value is what the
\* function returns, or the exception that leaves it
select_top_5_with_explanations(real, results, out) ==
    IF out.raised THEN Returned(AnalysisError(real, out.msg))
    ELSE LET parsed == JsonLoads(CleanResponse(out.value))
         IN  IF parsed.raised THEN ParseFallback(real, results)
             ELSE Returned(parsed.value)

----------------------------------------------------------------------------
(* verify_news_with_ground_truth, lines 278-338 *)

NoOutcome == [raised |-> FALSE, value |-> <<>>, pending |-> TRUE]

Event(op, ev) == [op |-> op, ev |-> ev]

\* how a call of op that ended as out is recorded
Ended(op, out) == Event(op, IF out.raised THEN "raise" ELSE "return")

\* nothing but one invocation of the pipeline is running
AuxIdle ==
    /\ harness = [stage |-> "off", label |-> ""]
    /\ pure = [fn |-> "none", arg |-> <<>>, ret |-> <<>>, applied |-> FALSE]
    /\ genai_key = ""
    /\ runs = <<>>

\* the locals of an invocation before its first statement
LocalsUnset ==
    /\ is_real = FALSE
    /\ claims = <<>>
    /\ search_results = <<>>
    /\ rank_out = NoOutcome
    /\ result = <<>>
    /\ calls = <<>>
    /\ search_request = <<>>

Init ==
    /\ news_input \in NewsInputs
    /\ pc = "validate"
    /\ LocalsUnset
    /\ AuxIdle

\* return value (or the top-level handler's dict, lines 331-338, for an exception)
Finish(r) ==
    /\ result' = r
    /\ pc' = "done"

\* lines 280-295
Validate ==
    /\ pc = "validate"
    /\ LET v == ValidateInput(news_input)
       IN  IF v.raised
           THEN /\ Finish(ErrorResult(v.msg))
                /\ UNCHANGED is_real
           ELSE /\ is_real' = v.value
                /\ pc' = "configure"
                /\ UNCHANGED result
    /\ UNCHANGED <<news_input, claims, search_results, rank_out, calls, search_request, aux_vars>>

\* line 298: configure_apis is entered
ConfigureCall ==
    /\ pc = "configure"
    /\ calls' = Append(calls, Event("configure", "call"))
    /\ pc' = "configuring"
    /\ UNCHANGED <<news_input, is_real, claims, search_results, rank_out, result, search_request, aux_vars>>

\* line 298: configure_apis returns the handles or raises
ConfigureReturn ==
    /\ pc = "configuring"
    /\ \E out \in {Returned("handles")} \cup {Raised(m) : m \in ServiceErrors} :
        /\ calls' = Append(calls, Ended("configure", out))
        /\ LET c == configure_apis(out)
           IN  IF c.raised
               THEN Finish(ErrorResult(c.msg))
               ELSE pc' = "extract" /\ UNCHANGED result
    /\ UNCHANGED <<news_input, is_real, claims, search_results, rank_out, search_request, aux_vars>>

\* line 301 to line 91: the claim-extraction prompt is sent
ExtractCall ==
    /\ pc = "extract"
    /\ calls' = Append(calls, Event("generate_content", "call"))
    /\ pc' = "extracting"
    /\ UNCHANGED <<news_input, is_real, claims, search_results, rank_out, result, search_request, aux_vars>>

\* mutant: the early return of lines 304-309 is missing
ExtractReturn_no_exit ==
    /\ pc = "extracting"
    /\ \E out \in {Returned(t) : t \in ExtractTexts} \cup {Raised(m) : m \in ServiceErrors} :
        /\ calls' = Append(calls, Ended("generate_content", out))
        /\ claims' = extract_claims_for_verification(out)
        /\ pc' = "search"
    /\ UNCHANGED <<news_input, is_real, search_results, rank_out, result, search_request, aux_vars>>

\* lines 91-107 and 301-309
ExtractReturn ==
    /\ pc = "extracting"
    /\ \E out \in {Returned(t) : t \in ExtractTexts} \cup {Raised(m) : m \in ServiceErrors} :
        /\ calls' = Append(calls, Ended("generate_content", out))
        /\ claims' = extract_claims_for_verification(out)
        /\ IF claims' = <<>>
           THEN Finish(EmptyClaimsResult(is_real))
           ELSE pc' = "search" /\ UNCHANGED result
    /\ UNCHANGED <<news_input, is_real, search_results, rank_out, search_request, aux_vars>>

\* line 312 to line 133: the search request is built and sent
SearchCall ==
    /\ pc = "search"
    /\ search_request' = SearchRequest(claims, is_real)
    /\ calls' = Append(calls, Event("search", "call"))
    /\ pc' = "searching"
    /\ UNCHANGED <<news_input, is_real, claims, search_results, rank_out, result, aux_vars>>

\* mutant: the early return of lines 315-320 is missing
SearchReturn_no_exit ==
    /\ pc = "searching"
    /\ \E out \in {Returned(r) : r \in SearchResponses} \cup {Raised(m) : m \in ServiceErrors} :
        /\ calls' = Append(calls, Ended("search", out))
        /\ search_results' = search_supporting_evidence(out)
        /\ pc' = "rank"
    /\ UNCHANGED <<news_input, is_real, claims, rank_out, result, search_request, aux_vars>>

\* lines 133-156 and 312-320
SearchReturn ==
    /\ pc = "searching"
    /\ \E out \in {Returned(r) : r \in SearchResponses} \cup {Raised(m) : m \in ServiceErrors} :
        /\ calls' = Append(calls, Ended("search", out))
        /\ search_results' = search_supporting_evidence(out)
        /\ IF search_results' = <<>>
           THEN Finish(NoEvidenceResult(is_real))
           ELSE pc' = "rank" /\ UNCHANGED result
    /\ UNCHANGED <<news_input, is_real, claims, rank_out, search_request, aux_vars>>

\* line 323 to line 221: the ranking prompt is sent
RankCall ==
    /\ pc = "rank"
    /\ calls' = Append(calls, Event("generate_content", "call"))
    /\ pc' = "ranking"
    /\ UNCHANGED <<news_input, is_real, claims, search_results, rank_out, result, search_request, aux_vars>>

\* mutant: a ranking call that raised is issued once more
RankReturn_retry ==
    /\ pc = "ranking"
    /\ \E out \in {Returned(t) : t \in RankTexts} \cup {Raised(m) : m \in ServiceErrors} :
        /\ calls' = Append(calls, Ended("generate_content", out))
        /\ rank_out' = out
        /\ IF out.raised /\ Len(calls) < 8
           THEN pc' = "rank" /\ UNCHANGED result
           ELSE LET r == select_top_5_with_explanations(is_real, search_results, out)
                IN  IF r.raised THEN Finish(ErrorResult(r.msg)) ELSE Finish(r.value)
    /\ UNCHANGED <<news_input, is_real, claims, search_results, search_request, aux_vars>>

\* lines 221-258 and 323-338
RankReturn ==
    /\ pc = "ranking"
    /\ \E out \in {Returned(t) : t \in RankTexts} \cup {Raised(m) : m \in ServiceErrors} :
        /\ calls' = Append(calls, Ended("generate_content", out))
        /\ rank_out' = out
        /\ LET r == select_top_5_with_explanations(is_real, search_results, out)
           IN  IF r.raised THEN Finish(ErrorResult(r.msg)) ELSE Finish(r.value)
    /\ UNCHANGED <<news_input, is_real, claims, search_results, search_request, aux_vars>>

Next ==
    \/ Validate
    \/ ConfigureCall
    \/ ConfigureReturn
    \/ ExtractCall
    \/ ExtractReturn
    \/ SearchCall
    \/ SearchReturn
    \/ RankCall
    \/ RankReturn

Spec == Init /\ [][Next]_vars

----------------------------------------------------------------------------
(* Concurrent invocations: configure_apis (lines 47-55) and the calls through  *)
(* the handles it returns, for two invocations in threads of one process.      *)
(* genai.configure(api_key=...) sets a key of the genai module, not of the     *)
(* GenerativeModel object, which is constructed without a key; the object      *)
(* takes the module's key when it is constructed or at its first call.         *)

Invocations == {1, 2}

\* the gemini_api_key argument of each invocation
OwnKey == <<"gemini-key-A", "gemini-key-B">>

\* no invocation of the single pipeline is under way
PipelineIdle ==
    /\ news_input = <<>>
    /\ pc = "idle"
    /\ LocalsUnset

pipeline_vars ==
    <<news_input, pc, is_real, claims, search_results, rank_out, result, calls,
      search_request>>

ConcInit ==
    /\ PipelineIdle
    /\ harness = [stage |-> "off", label |-> ""]
    /\ pure = [fn |-> "none", arg |-> <<>>, ret |-> <<>>, applied |-> FALSE]
    /\ genai_key = ""
    /\ runs = [i \in Invocations |-> [pc |-> "tavily", model_key |-> "", used |-> <<>>]]

\* invocation i moves on, the rest of the process untouched
ConcStep(i, r) ==
    /\ runs' = [runs EXCEPT ![i] = r]
    /\ UNCHANGED <<pipeline_vars, harness, pure>>

\* line 50: TavilyClient(api_key=tavily_api_key), an object of this invocation
ConcTavily(i) ==
    /\ runs[i].pc = "tavily"
    /\ ConcStep(i, [runs[i] EXCEPT !.pc = "configure"])
    /\ UNCHANGED genai_key

\* line 51: genai.configure(api_key=gemini_api_key) writes the module's key
ConcConfigure(i) ==
    /\ runs[i].pc = "configure"
    /\ genai_key' = OwnKey[i]
    /\ ConcStep(i, [runs[i] EXCEPT !.pc = "construct"])

\* line 52: genai.GenerativeModel('gemini-2.5-flash'), with the module's key
\* taken now or left to the first call
ConcConstruct(i) ==
    /\ runs[i].pc = "construct"
    /\ \E k \in {"", genai_key} :
        ConcStep(i, [runs[i] EXCEPT !.pc = "extract", !.model_key = k])
    /\ UNCHANGED genai_key

\* the key a generate_content call of invocation i goes out with
BoundKey(i) == IF runs[i].model_key = "" THEN genai_key ELSE runs[i].model_key

\* line 91: the claim-extraction call; no claim ends the run (lines 304-309)
ConcExtract(i) ==
    /\ runs[i].pc = "extract"
    /\ \E next \in {"search", "done"} :
        ConcStep(i, [pc |-> next, model_key |-> BoundKey(i),
                     used |-> Append(runs[i].used, BoundKey(i))])
    /\ UNCHANGED genai_key

\* line 133: the search call, through this invocation's own client
ConcSearch(i) ==
    /\ runs[i].pc = "search"
    /\ \E next \in {"rank", "done"} :
        ConcStep(i, [runs[i] EXCEPT !.pc = next])
    /\ UNCHANGED genai_key

\* line 221: the ranking call
ConcRank(i) ==
    /\ runs[i].pc = "rank"
    /\ ConcStep(i, [pc |-> "done", model_key |-> BoundKey(i),
                    used |-> Append(runs[i].used, BoundKey(i))])
    /\ UNCHANGED genai_key

ConcNext ==
    \E i \in Invocations :
        \/ ConcTavily(i)
        \/ ConcConfigure(i)
        \/ ConcConstruct(i)
        \/ ConcExtract(i)
        \/ ConcSearch(i)
        \/ ConcRank(i)

ConcSpec == ConcInit /\ [][ConcNext]_vars

----------------------------------------------------------------------------
(* The text functions on their own: the claim parser of lines 92-103 and the   *)
(* response clean-up and parse of lines 222-231, applied to a given text       *)

\* language tags after an opening fence: none, json, JSON
FenceTags == {<<>>, <<"j", "s", "o", "n">>, <<"J", "S", "O", "N">>}

\* a document in a code fence, with tag t and line breaks nl around the document
Fenced(t, nl, d) == Fence \o t \o nl \o <<d>> \o nl \o Fence

\* response texts given to the clean-up: fenced documents, bare documents, prose
CleanTexts ==
    {Fenced(t, nl, d) : t \in FenceTags, nl \in {<<>>, <<"\n">>}, d \in JsonDocs}
    \cup {<<d>> : d \in JsonDocs}
    \cup {NonJsonText, Fence \o <<"\n">> \o NonJsonText \o <<"\n">> \o Fence}

\* response texts given to the claim parser
ParserTexts == {Join(ls, <<"\n">>) : ls \in SeqsUpTo(SampleLines, MaxRespLines)}

PureInit ==
    /\ PipelineIdle
    /\ harness = [stage |-> "off", label |-> ""]
    /\ genai_key = ""
    /\ runs = <<>>
    /\ pure \in {[fn |-> "extract_claims", arg |-> t, ret |-> <<>>, applied |-> FALSE] :
                    t \in ParserTexts}
            \cup {[fn |-> "clean_and_parse", arg |-> t, ret |-> <<>>, applied |-> FALSE] :
                    t \in CleanTexts}

\* lines 92-103 on the response text pure.arg
ApplyExtract ==
    /\ pure.fn = "extract_claims"
    /\ ~pure.applied
    /\ pure' = [pure EXCEPT !.ret = extract_claims_for_verification(Returned(pure.arg)),
                            !.applied = TRUE]
    /\ UNCHANGED <<pipeline_vars, harness, genai_key, runs>>

\* lines 222-231 on the response text pure.arg
ApplyClean ==
    /\ pure.fn = "clean_and_parse"
    /\ ~pure.applied
    /\ pure' = [pure EXCEPT !.ret = JsonLoads(CleanResponse(pure.arg)),
                            !.applied = TRUE]
    /\ UNCHANGED <<pipeline_vars, harness, genai_key, runs>>

PureNext ==
    \/ ApplyExtract
    \/ ApplyClean

PureSpec == PureInit /\ [][PureNext]_vars

----------------------------------------------------------------------------
(* run_verify.py: the command-line harness around verify_news_with_ground_truth *)

\* what opening and parsing the input file can give besides a record
LoadErrors == {"FileNotFoundError", "JSONDecodeError"}

\* run_verify.py line 63: "REAL" if news_input.get('Real/Fake') == 1 else "FAKE"
HarnessLabel(inp) ==
    IF inp["Real/Fake"].t = "int" /\ inp["Real/Fake"].i = 1 THEN "REAL" ELSE "FAKE"

\* run_verify.py lines 53-60: the record has a non-empty Text and a Real/Fake key
HarnessAccepts(inp) ==
    /\ "Text" \in DOMAIN inp
    /\ inp["Text"] # ""
    /\ "Real/Fake" \in DOMAIN inp

HarnessInit ==
    /\ PipelineIdle
    /\ harness = [stage |-> "keys", label |-> ""]
    /\ pure = [fn |-> "none", arg |-> <<>>, ret |-> <<>>, applied |-> FALSE]
    /\ genai_key = ""
    /\ runs = <<>>

\* the harness moves to stage st
HarnessTo(st) == harness' = [harness EXCEPT !.stage = st]

\* run_verify.py lines 21-29: both API keys must be set in the environment
HarnessCheckKeys ==
    /\ harness.stage = "keys"
    /\ \E keys_set \in BOOLEAN : HarnessTo(IF keys_set THEN "load" ELSE "exit")
    /\ UNCHANGED <<pipeline_vars, pure, genai_key, runs>>

\* run_verify.py lines 39-50: the input file is opened and parsed
HarnessLoad ==
    /\ harness.stage = "load"
    /\ \/ /\ \E err \in LoadErrors : HarnessTo("exit")
          /\ UNCHANGED news_input
       \/ /\ news_input' \in NewsInputs
          /\ HarnessTo("validate")
    /\ UNCHANGED <<pc, is_real, claims, search_results, rank_out, result, calls,
                   search_request, pure, genai_key, runs>>

\* run_verify.py lines 52-74: the required fields are checked, the label is
\* displayed, and verify_news_with_ground_truth is called
HarnessValidate ==
    /\ harness.stage = "validate"
    /\ IF HarnessAccepts(news_input)
       THEN /\ harness' = [stage |-> "running", label |-> HarnessLabel(news_input)]
            /\ pc' = "validate"
       ELSE /\ HarnessTo("exit")
            /\ UNCHANGED pc
    /\ UNCHANGED <<news_input, is_real, claims, search_results, rank_out, result, calls,
                   search_request, pure, genai_key, runs>>

\* run_verify.py lines 76-109: the result is printed and saved
HarnessReport ==
    /\ harness.stage = "running"
    /\ pc = "done"
    /\ HarnessTo("finished")
    /\ UNCHANGED <<pipeline_vars, pure, genai_key, runs>>

HarnessNext ==
    \/ HarnessCheckKeys
    \/ HarnessLoad
    \/ HarnessValidate
    \/ HarnessReport
    \/ Next

HarnessSpec == HarnessInit /\ [][HarnessNext]_vars

----------------------------------------------------------------------------
(* Vocabulary of the properties *)

Done == pc = "done"

\* the label the caller supplied, as the run read it
TruthLabel == IF is_real THEN "REAL" ELSE "FAKE"

\* the external calls issued so far, in order
Issued == SelectSeq(calls, LAMBDA e : e.ev = "call")

HasEvent(op, ev) == \E k \in DOMAIN calls : calls[k] = Event(op, ev)

NumIssued(op) == Cardinality({k \in DOMAIN calls : calls[k] = Event(op, "call")})

\* the claim-extraction call has ended and gave no claim
NoClaims ==
    /\ Len(calls) >= 4
    /\ calls[4].op = "generate_content" /\ calls[4].ev \in {"return", "raise"}
    /\ claims = <<>>

\* the search call has ended and gave no hit
NoHits ==
    /\ \E k \in DOMAIN calls : calls[k].op = "search" /\ calls[k].ev \in {"return", "raise"}
    /\ search_results = <<>>

\* ranks are 1..k in ascending order
RanksDense(sources) == \A k \in DOMAIN sources : sources[k].rank = k

\* the VerificationResult shape: label, explanation, 0-5 complete sources
WellFormedSource(src) ==
    /\ {"rank", "url", "title", "source_name", "relevance", "explanation"} \subseteq DOMAIN src
    /\ src.relevance \in {"high", "medium", "low"}

WellFormedResult(r) ==
    /\ {"label", "overall_explanation", "top_5_sources"} \subseteq DOMAIN r
    /\ r.label \in {"REAL", "FAKE", "ERROR"}
    /\ Len(r.top_5_sources) <= 5
    /\ \A k \in DOMAIN r.top_5_sources : WellFormedSource(r.top_5_sources[k])

----------------------------------------------------------------------------
(* Properties *)

\* C1 (as claimed): for a valid request (non-empty Text, Real/Fake 0 or 1) the
\* returned label is REAL, FAKE or ERROR, and unless configuration failed it is the
\* mapped ground-truth label (1 -> REAL, 0 -> FAKE) whatever the collaborators did.
C1_LabelIsGroundTruth ==
    (/\ Done
     /\ DOMAIN news_input = {"Text", "Real/Fake"}
     /\ news_input["Text"] # ""
     /\ news_input["Real/Fake"] \in {PyInt(0), PyInt(1)})
    => /\ "label" \in DOMAIN result
       /\ result.label \in {"REAL", "FAKE", "ERROR"}
       /\ ~HasEvent("configure", "raise")
            => result.label = (IF news_input["Real/Fake"] = PyInt(1) THEN "REAL" ELSE "FAKE")

\* C2 (as claimed): every returned result has at most 5 entries in top_5_sources,
\* with ranks exactly 1..k in ascending order.
C2_RanksDenseOnEveryPath ==
    Done => /\ "top_5_sources" \in DOMAIN result
            /\ Len(result.top_5_sources) <= 5
            /\ RanksDense(result.top_5_sources)

\* C3 (as claimed): when claim extraction yields no claim, neither the search nor
\* the ranking call is issued, and the result is exactly the ground-truth label,
\* the explanation "could not extract claims for verification", no sources, no error.
C3_EmptyClaimsLowercase ==
    NoClaims =>
        /\ Issued = <<Event("configure", "call"), Event("generate_content", "call")>>
        /\ Done
        /\ result = [label |-> TruthLabel,
                     overall_explanation |-> "could not extract claims for verification",
                     top_5_sources |-> <<>>]

\* C3 (amended): when claim extraction yields no claim, neither the search nor the
\* ranking call is issued, and the result is exactly the ground-truth label, the
\* explanation "Could not extract claims for verification" (capital C), no sources
\* and no error field.
C3_EmptyClaimsShortCircuit ==
    NoClaims =>
        /\ Issued = <<Event("configure", "call"), Event("generate_content", "call")>>
        /\ Done
        /\ result = [label |-> TruthLabel,
                     overall_explanation |-> "Could not extract claims for verification",
                     top_5_sources |-> <<>>]

\* C3 witness: a finished run whose extraction response had no parseable line
C3_Witness ==
    /\ Done
    /\ NoClaims
    /\ calls[4].ev = "return"
    /\ ~is_real

\* C4 (as claimed): when claims exist and the search yields no hit, the ranking
\* call is never issued and the result is exactly the ground-truth label, the
\* explanation "no supporting sources found to verify/debunk this news", no sources.
C4_NoEvidenceLowercase ==
    (claims # <<>> /\ NoHits) =>
        /\ NumIssued("generate_content") = 1
        /\ Done
        /\ result = [label |-> TruthLabel,
                     overall_explanation |->
                        IF is_real THEN "no supporting sources found to verify this news"
                        ELSE "no supporting sources found to debunk this news",
                     top_5_sources |-> <<>>]

\* C4 (amended): when claims exist and the search yields no hit, the ranking call
\* is never issued and the result is exactly the ground-truth label, the explanation
\* "No supporting sources found to verify this news" (real) or "No supporting
\* sources found to debunk this news" (fake), with a capital N, and no sources.
C4_NoEvidenceShortCircuit ==
    (claims # <<>> /\ NoHits) =>
        /\ NumIssued("generate_content") = 1
        /\ Done
        /\ result = [label |-> TruthLabel,
                     overall_explanation |->
                        IF is_real THEN "No supporting sources found to verify this news"
                        ELSE "No supporting sources found to debunk this news",
                     top_5_sources |-> <<>>]

\* C4 witness: a finished run whose search returned an empty result list
C4_Witness ==
    /\ Done
    /\ claims # <<>>
    /\ NoHits
    /\ HasEvent("search", "return")

\* C5 (as claimed): when the ranking response is not valid JSON, every non-empty
\* list of hits (a hit whose url was defaulted to '' included) gives the fallback:
\* ground-truth label and exactly min(5, hit_count) sources, the hits in their
\* original order with ranks 1..k, each of relevance "medium".
C5_FallbackForEveryHitList ==
    (Done /\ ~rank_out.raised /\ rank_out.value = NonJsonText) =>
        /\ result.label = TruthLabel
        /\ Len(result.top_5_sources) = (IF Len(search_results) < 5 THEN Len(search_results) ELSE 5)
        /\ \A k \in DOMAIN result.top_5_sources :
            /\ result.top_5_sources[k].rank = k
            /\ result.top_5_sources[k].url = search_results[k].url
            /\ result.top_5_sources[k].title = search_results[k].title
            /\ result.top_5_sources[k].relevance = "medium"

\* C6: an input with Text missing or empty, or with Real/Fake missing, causes no
\* collaborator call at all (no configure, no generate_content, no search) and
\* returns label ERROR, an explanation embedding the validation message, no
\* sources, and an error field.
C6_ValidationRejectsBeforeAnyCall ==
    ("Text" \notin DOMAIN news_input \/ news_input["Text"] = ""
        \/ "Real/Fake" \notin DOMAIN news_input)
    => /\ calls = <<>>
       /\ pc \in {"validate", "done"}
       /\ Done =>
            /\ DOMAIN result = {"label", "overall_explanation", "top_5_sources", "error"}
            /\ result.label = "ERROR"
            /\ result.error \in {"News text is required",
                                 "Real/Fake label is required (1 for real, 0 for fake)"}
            /\ result.overall_explanation = "Error during verification: " \o result.error
            /\ result.top_5_sources = <<>>

\* C6 witness: a finished run on an input that has a Text but no Real/Fake key
C6_Witness ==
    /\ Done
    /\ DOMAIN news_input = {"Text"}
    /\ news_input["Text"] # ""
    /\ result.label = "ERROR"

\* C7 (as claimed): every run ends with a well-formed VerificationResult: label in
\* {REAL, FAKE, ERROR}, an explanation, and 0-5 sources each with rank, url, title,
\* source_name, relevance in {high, medium, low} and explanation, the path where
\* the ranker's response parses as JSON included.
C7_AlwaysWellFormed == Done => WellFormedResult(result)

C9_ConfigurationFailure ==
    HasEvent("configure", "raise") =>
        /\ calls = <<Event("configure", "call"), Event("configure", "raise")>>
        /\ Done
        /\ result.label = "ERROR"
        /\ \E m \in ServiceErrors : result.error = "API configuration failed: " \o m
        /\ result.overall_explanation = "Error during verification: " \o result.error
        /\ result.top_5_sources = <<>>

\* C9 witness: a finished run whose configuration step raised
C9_Witness ==
    /\ Done
    /\ HasEvent("configure", "raise")
    /\ "error" \in DOMAIN result

\* the order of the stages' calls
StageOrder ==
    <<Event("configure", "call"), Event("generate_content", "call"),
      Event("search", "call"), Event("generate_content", "call")>>

\* C10: the external calls are issued in the order configure, generate_content
\* (extraction), search, generate_content (ranking), at most one per stage; a call
\* is issued only after the previous one ended; a call that raised is never
\* issued again (at most 2 generate_content calls and 1 search call per run).
C10_CallOrderNoRetry ==
    /\ Len(Issued) <= 4
    /\ Issued = SubSeq(StageOrder, 1, Len(Issued))
    /\ NumIssued("generate_content") <= 2
    /\ NumIssued("search") <= 1
    /\ \A k \in DOMAIN calls :
        /\ calls[k].ev = "call" =>
            k = Len(calls) \/ (calls[k + 1].op = calls[k].op /\ calls[k + 1].ev # "call")
        /\ calls[k].ev # "call" => k > 1 /\ calls[k - 1] = Event(calls[k].op, "call")
        /\ calls[k].ev = "raise" => k = Len(calls) /\ Done

\* C10 witness: a finished run that went through all four stages
C10_Witness ==
    /\ Done
    /\ Issued = StageOrder
    /\ Len(calls) = 8

\* C11 (as claimed): concurrent invocations, each with its own API keys, share no
\* mutable state: no invocation's configuration step affects the handle of
\* another, so every generate_content call of an invocation goes out with that
\* invocation's own key, as it would running alone.
C11_InvocationsIsolated ==
    \A i \in Invocations :
        \A k \in DOMAIN runs[i].used : runs[i].used[k] = OwnKey[i]

\* the claim parser has been applied to pure.arg
Parsed == pure.fn = "extract_claims" /\ pure.applied

\* the lines of the response given to the claim parser
ResponseLines == Split(pure.arg, <<"\n">>)

\* what C12 asks of a line: for a line that begins with a digit or a dash, the
\* line without its leading marker (digits with "." or ")", or dashes) and without
\* surrounding whitespace, the rest in full; no claim otherwise or when that is empty
MarkerStripped(rawline) ==
    LET line == Strip(rawline)
        rest ==
            IF StartsWith(line, <<"-">>) THEN LStripSet(line, {"-"})
            ELSE LET d == LStripSet(line, Digits)
                 IN  IF d # <<>> /\ d[1] \in {".", ")"} THEN Tail(d) ELSE d
    IN  IF line # <<>> /\ (line[1] \in Digits \/ line[1] = "-") /\ Strip(rest) # <<>>
        THEN <<Strip(rest)>>
        ELSE <<>>

RECURSIVE MarkerStrippedAll(_)
MarkerStrippedAll(lines) ==
    IF lines = <<>> THEN <<>>
    ELSE MarkerStripped(Head(lines)) \o MarkerStrippedAll(Tail(lines))

\* C12 (as claimed): each response line that begins with a digit or a dash gives
\* one claim, the line with only its leading enumeration marker and surrounding
\* whitespace removed and the rest, later '.' characters included, kept in full;
\* other lines, and lines empty after stripping, give no claim.
C12_MarkerOnlyStripped ==
    (Parsed /\ Len(MarkerStrippedAll(ResponseLines)) <= 5)
        => pure.ret = MarkerStrippedAll(ResponseLines)

\* the lines of the response that give a claim, in order
ParseableLines == SelectSeq(ResponseLines, LAMBDA l : ClaimsOfLine(l) # <<>>)

\* C13: extract_claims_for_verification returns at most 5 claims: those of the
\* first (up to) 5 parseable lines, in the order of the response, each a
\* non-empty string.
C13_AtMostFiveInOrder ==
    Parsed =>
        /\ Len(pure.ret) <= 5
        /\ Len(pure.ret) = (IF Len(ParseableLines) < 5 THEN Len(ParseableLines) ELSE 5)
        /\ \A k \in DOMAIN pure.ret :
            /\ pure.ret[k] # <<>>
            /\ <<pure.ret[k]>> = ClaimsOfLine(ParseableLines[k])

\* C13 witness: a response with six parseable lines, cut to five claims
C13_Witness ==
    /\ Parsed
    /\ Len(ParseableLines) = 6
    /\ Len(pure.ret) = 5
    /\ pure.ret[1] # pure.ret[2]

\* C14 (as claimed): a ranking response that is a valid JSON object in a code
\* fence, with or without a language tag after the opening fence, is stripped of
\* fence and tag and parses to that object.
C14_FencedJsonParses ==
    (pure.fn = "clean_and_parse" /\ pure.applied) =>
        \A t \in FenceTags, nl \in {<<>>, <<"\n">>}, d \in JsonDocs :
            pure.arg = Fenced(t, nl, d) => pure.ret = Returned(JsonValue(d))

\* "confirmed true verified"
BiasPhraseReal ==
    <<"c", "o", "n", "f", "i", "r", "m", "e", "d", " ", "t", "r", "u", "e", " ", "v", "e", "r", "i", "f", "i", "e", "d">>

\* "false fake debunked hoax misinformation"
BiasPhraseFake ==
    <<"f", "a", "l", "s", "e", " ", "f", "a", "k", "e", " ", "d", "e", "b", "u", "n", "k", "e", "d", " ", "h", "o", "a", "x", " ", "m", "i", "s", "i", "n", "f", "o", "r", "m", "a", "t", "i", "o", "n">>

\* C15: for a non-empty claim list exactly one search request is issued; its query
\* is the claims joined by " OR " in order, then (after a space) the phrase
\* "confirmed true verified" for a real label or "false fake debunked hoax
\* misinformation" for a fake one; it is restricted to the domain allowlist, with
\* at most 20 results and a window of 365 days.
C15_SearchRequest ==
    /\ (claims # <<>> /\ pc \in {"searching", "rank", "ranking", "done"}) =>
        /\ NumIssued("search") = 1
        /\ search_request.query =
                Join(claims, <<" ", "O", "R", " ">>) \o <<" ">>
                    \o (IF is_real THEN BiasPhraseReal ELSE BiasPhraseFake)
        /\ search_request.include_domains = INDIAN_NEWS_DOMAINS
        /\ Len(search_request.include_domains) = 24
        /\ search_request.max_results = 20
        /\ search_request.days = 365
    /\ NumIssued("search") = 0 => search_request = <<>>

\* C15 witness: a search issued for two claims of a fake-labelled input
C15_Witness ==
    /\ Len(claims) = 2
    /\ claims[1] # claims[2]
    /\ ~is_real
    /\ HasEvent("search", "return")
    /\ search_request # <<>>

\* C16 (as claimed): the harness calls verify_news_with_ground_truth only on a
\* record whose Text is present and non-empty and whose Real/Fake is present and
\* is 0 or 1; every other record is rejected before the pipeline runs.
C16_HarnessRejectsMalformed ==
    pc # "idle" =>
        /\ DOMAIN news_input = {"Text", "Real/Fake"}
        /\ news_input["Text"] # ""
        /\ news_input["Real/Fake"] \in {PyInt(0), PyInt(1)}

\* the sources of the returned dict
Sources == Get(result, "top_5_sources", <<>>)

\* the top-level handler of lines 331-338 produced the result
HandlerResult == Done /\ "error" \in DOMAIN result

\* one of the early returns of lines 304-309 and 315-320 produced the result
EarlyExit == Done /\ ~HandlerResult /\ NumIssued("generate_content") < 2

\* C17: a returned top_5_sources is non-empty only if claim extraction gave a claim,
\* the search gave a hit and the ranking call was made in that run; the results of
\* the early returns and of the top-level handler have an empty top_5_sources.
C17_SourcesOnlyAfterAllStages ==
    /\ (Done /\ Sources # <<>>) =>
            /\ claims # <<>>
            /\ search_results # <<>>
            /\ NumIssued("generate_content") = 2
            /\ Issued[Len(Issued)] = Event("generate_content", "call")
    /\ (EarlyExit \/ HandlerResult) => Sources = <<>>

\* a run that returned sources
C17_Witness == Done /\ Sources # <<>> /\ search_results # <<>>

\* the Real/Fake value of the request
RealFake == Get(news_input, "Real/Fake", PyNone)

\* the request has a text and a Real/Fake value, and validation has run
Validated ==
    /\ pc # "validate"
    /\ Get(news_input, "Text", "") # ""
    /\ RealFake # PyNone

\* C18: a Real/Fake value that int() cannot convert ends the run like a missing
\* label, with no collaborator call (configuration included) and an ERROR result
\* with an error field; the value 0 is accepted and is read as FAKE, and every
\* non-zero integer is read as REAL.
C18_LabelConversion ==
    /\ (Validated /\ PyToInt(RealFake).raised) =>
            /\ Done
            /\ calls = <<>>
            /\ result.label = "ERROR"
            /\ "error" \in DOMAIN result
            /\ result.top_5_sources = <<>>
    /\ (Validated /\ ~PyToInt(RealFake).raised) =>
            /\ ~HandlerResult \/ calls # <<>>
            /\ is_real = (PyToInt(RealFake).value # 0)
            /\ EarlyExit => result.label = (IF RealFake = PyInt(0) THEN "FAKE" ELSE "REAL")

\* a run rejected for a Real/Fake value that is no number
C18_Witness ==
    /\ Validated
    /\ RealFake = PyStr(<<"a", "b", "c">>)
    /\ HandlerResult
    /\ calls = <<>>

\* C19 (as claimed): for every record the harness passes on, the label it displays
\* before the run (Real/Fake == 1) is the ground-truth label the pipeline derives
\* from the same record (bool(int(Real/Fake))) and labels its result with.
C19_DisplayedLabelIsGroundTruth ==
    (harness.stage \in {"running", "finished"} /\ Validated /\ ~HandlerResult) =>
        harness.label = TruthLabel

====
